---- MODULE Spec2Model ----
(***************************************************************************)
(* Model of app.py: the cached quote fetcher get_stock_data and the        *)
(* dashboard script that calls it.                                         *)
(*                                                                         *)
(* Strings that the code converts are modelled by what the conversion      *)
(* does: a timestamp key is a string with a table giving the instant       *)
(* pd.to_datetime parses it to (two spellings may share an instant, some   *)
(* strings do not parse), a field value is a string with a table giving    *)
(* the float it coerces to.  Prices are kept in tenths so that they are    *)
(* integers.  A top-level key name of the JSON payload is a sequence of    *)
(* tokens, so that "contains the substring Time Series" and "is exactly    *)
(* Time Series (5min)" are different tests.                                *)
(*                                                                         *)
(* API_KEY is the module-level configuration of line 10.  It is fixed for  *)
(* a whole behaviour; Init draws it from the key as shipped and a key the  *)
(* deployer has put in its place, as the comment of lines 8-9 asks.        *)
(***************************************************************************)
EXTENDS Integers, Sequences, FiniteSets, TLC

\* ---------------------------------------------------------------- bounds
MaxCalls == 3
MaxTime == 3600
Tick == 1800
MaxEntries == 2

\* ------------------------------------------------------ program constants
TTL == 3600
ShippedKey == "IOPOMGZYQH86ES0Z"
PlaceholderKey == "IOPOMGZYQH86ES0Z"
DefaultInterval == "5min"
NaN == -1

ApiKeys == {ShippedKey, "DEPLOYERKEY"}
Symbols == {"AAPL", "MSFT"}
Intervals == {"5min", "15min"}
SymbolInputs == {"", "aapl", "AAPL", "MSFT"}
Keys == Symbols \X Intervals

\* str.upper() on the sidebar text.
Upper(s) == IF s = "aapl" THEN "AAPL" ELSE s

\* ------------------------------------------------- payload key names
TS5 == <<"Time Series", " (5min)">>
TS15 == <<"Time Series", " (15min)">>
ERR == <<"Error Message">>
NOTE == <<"Note">>
META == <<"Meta Data">>
TopNames == {TS5, TS15, ERR, NOTE, META}

\* `"Time Series" in key`: substring test on one key name.
Contains(name, tok) == \E i \in 1..Len(name) : name[i] = tok

\* `name in data`: exact-key membership in the payload dict.
InData(data, name) == \E i \in 1..Len(data) : data[i].name = name

\* next((key for key in data if "Time Series" in key), None): position of
\* the first such key in dict order, 0 for None.
TimeSeriesKey(data) ==
    IF \E i \in 1..Len(data) : Contains(data[i].name, "Time Series")
    THEN CHOOSE i \in 1..Len(data) :
            /\ Contains(data[i].name, "Time Series")
            /\ \A j \in 1..(i-1) : ~Contains(data[j].name, "Time Series")
    ELSE 0

\* ------------------------------------------------- timestamps and floats
\* pd.to_datetime on one index string: minutes since midnight of
\* 2024-01-02.  The second spelling differs from the first only in
\* whitespace.  Strings outside the table do not parse.
StampOf ==
    ("2024-01-02 09:35:00" :> 575) @@ ("2024-01-02  09:35:00" :> 575) @@
    ("2024-01-02 09:40:00" :> 580)
KeyStrings == {"2024-01-02 09:35:00", "2024-01-02  09:35:00",
               "2024-01-02 09:40:00", "yesterday"}
IsDate(s) == s \in DOMAIN StampOf

\* float(s), in tenths.  Strings outside the table raise ValueError.
FloatOf ==
    ("10.0" :> 100) @@ ("10" :> 100) @@ ("10.5" :> 105) @@ ("9.8" :> 98) @@
    ("10.2" :> 102) @@ ("11.0" :> 110) @@ ("1000" :> 10000) @@
    ("1e3" :> 10000)
IsFloat(s) == s \in DOMAIN FloatOf

\* ---------------------------------------------------------- raw records
RowA == ("1. open" :> "10.0") @@ ("2. high" :> "10.5") @@ ("3. low" :> "9.8")
        @@ ("4. close" :> "10.2") @@ ("5. volume" :> "1000")
RowB == ("1. open" :> "10.2") @@ ("2. high" :> "11.0") @@ ("3. low" :> "10")
        @@ ("4. close" :> "10.5") @@ ("5. volume" :> "1e3")
RowBad == ("1. open" :> "10.0") @@ ("2. high" :> "10.5") @@ ("3. low" :> "9.8")
          @@ ("4. close" :> "10.2") @@ ("5. volume" :> "n/a")
RowShort == ("1. open" :> "10.0") @@ ("2. high" :> "10.5") @@
            ("3. low" :> "9.8") @@ ("4. close" :> "10.2")
RawRecords == {RowA, RowB, RowBad, RowShort}

\* ------------------------------------------------------- normalisation
\* The column mapping of df.rename: names outside it are kept.
Rename(c) ==
    CASE c = "1. open" -> "open"
      [] c = "2. high" -> "high"
      [] c = "3. low" -> "low"
      [] c = "4. close" -> "close"
      [] c = "5. volume" -> "volume"
      [] OTHER -> c

\* pd.DataFrame.from_dict(time_series, orient='index'): one row per entry in
\* dict order, the columns are the union of the entries' fields, a field an
\* entry lacks is NaN.  A cell is <<TRUE, string>> or <<FALSE, "">> (NaN).
FromDict(ts) ==
    LET cols == UNION {DOMAIN ts[i].rec : i \in 1..Len(ts)}
    IN [i \in 1..Len(ts) |->
          [index |-> ts[i].key,
           cells |-> [c \in cols |->
                        IF c \in DOMAIN ts[i].rec
                        THEN <<TRUE, ts[i].rec[c]>>
                        ELSE <<FALSE, "">>]]]

\* df.rename(columns={...}).
RenameColumns(df) ==
    [i \in 1..Len(df) |->
       [index |-> df[i].index,
        cells |-> [c \in {Rename(r) : r \in DOMAIN df[i].cells} |->
                     df[i].cells[CHOOSE r \in DOMAIN df[i].cells :
                                     Rename(r) = c]]]]

\* df.astype(float) raises when some cell is a string float() rejects.
AsTypeRaises(df) ==
    \E i \in 1..Len(df) : \E c \in DOMAIN df[i].cells :
        df[i].cells[c][1] /\ ~IsFloat(df[i].cells[c][2])

AsTypeFloat(df) ==
    [i \in 1..Len(df) |->
       [index |-> df[i].index,
        cells |-> [c \in DOMAIN df[i].cells |->
                     IF df[i].cells[c][1]
                     THEN FloatOf[df[i].cells[c][2]]
                     ELSE NaN]]]

\* pd.to_datetime(df.index) raises when some index string is not a date.
ToDatetimeRaises(df) == \E i \in 1..Len(df) : ~IsDate(df[i].index)

ToDatetime(df) ==
    [i \in 1..Len(df) |->
       [index |-> StampOf[df[i].index], cells |-> df[i].cells]]

IsAscending(df) ==
    \A i \in 1..Len(df) : \A j \in 1..Len(df) :
        i < j => df[i].index <= df[j].index

\* df.sort_index(ascending=True).  The default sort is not stable, so rows
\* with equal index may come out in either order.
SortIndex(df) ==
    {s \in {[i \in 1..Len(df) |-> df[p[i]]] : p \in Permutations(1..Len(df))} :
        IsAscending(s)}

\* ------------------------------------------------------ fetch outcomes
None == [ok |-> FALSE, rows |-> <<>>]
Frame(rows) == [ok |-> TRUE, rows |-> rows]

\* Lines 47-59 with the rows that fail coercion dropped instead of raising.
NormaliseDropMalformed(ts) ==
    LET good == SelectSeq(ts, LAMBDA e :
                    IsDate(e.key) /\ \A f \in DOMAIN e.rec : IsFloat(e.rec[f]))
        df == RenameColumns(FromDict(good))
    IN {[value |-> Frame(s), msg |-> "none"] :
            s \in SortIndex(ToDatetime(AsTypeFloat(df)))}

\* Lines 47-59: build, rename, coerce, parse the index, sort.  An exception
\* of lines 56-57 lands in `except Exception` (lines 63-65).
Normalise(ts) ==
    LET df == RenameColumns(FromDict(ts))
    IN IF AsTypeRaises(df) \/ ToDatetimeRaises(df)
       THEN {[value |-> None, msg |-> "unexpected_error"]}
       ELSE {[value |-> Frame(s), msg |-> "none"] :
                s \in SortIndex(ToDatetime(AsTypeFloat(df)))}

\* Classify with the "Note" test ahead of the "Error Message" test.
ClassifyNoteFirst(data) ==
    IF ~InData(data, TS5)
    THEN IF InData(data, NOTE) THEN "api_note"
         ELSE IF InData(data, ERR) THEN "api_error"
         ELSE "could_not_fetch"
    ELSE IF TimeSeriesKey(data) = 0 THEN "no_time_series"
         ELSE "time_series"

\* Lines 31-45: the shape checks on the parsed payload.
Classify(data) ==
    IF ~InData(data, TS5)
    THEN IF InData(data, ERR) THEN "api_error"
         ELSE IF InData(data, NOTE) THEN "api_note"
         ELSE "could_not_fetch"
    ELSE IF TimeSeriesKey(data) = 0 THEN "no_time_series"
         ELSE "time_series"

TransportFailures ==
    {"connection_error", "timeout", "status_429", "status_500"}

\* Lines 25-65: the try block, given what requests.get, raise_for_status and
\* response.json() produce.  A body that is not JSON raises a JSON decode
\* error, which is a RequestException in some versions of requests and a
\* plain ValueError in others.
Process(resp) ==
    CASE resp.kind \in TransportFailures ->
            {[value |-> None, msg |-> "network_error"]}
      [] resp.kind = "not_json" ->
            {[value |-> None, msg |-> "network_error"],
             [value |-> None, msg |-> "unexpected_error"]}
      [] OTHER ->
            IF Classify(resp.data) = "time_series"
            THEN Normalise(resp.data[TimeSeriesKey(resp.data)].series)
            ELSE {[value |-> None, msg |-> Classify(resp.data)]}

\* The guard without the comparison against the placeholder literal.
KeyGuardEmptyOnly(key) == key = ""

\* Line 18: `not API_KEY or API_KEY == 'IOPOMGZYQH86ES0Z'`.
KeyGuard(key) == key = "" \/ key = PlaceholderKey

\* ------------------------------------------------------------ responses
Entry(n, s) ==
    [name |-> n,
     series |-> IF Contains(n, "Time Series") THEN s ELSE <<>>,
     text |-> IF n = ERR THEN "Invalid API call."
              ELSE IF n = NOTE THEN "Thank you for using Alpha Vantage!"
              ELSE ""]

Item(k, r) == [key |-> k, rec |-> r]

Distinct(ts) ==
    \A i \in 1..Len(ts) : \A j \in 1..Len(ts) : i # j => ts[i].key # ts[j].key

\* Every time-series mapping of at most MaxEntries entries: a JSON object,
\* so the key strings are distinct; the order is the order of the body.
AllSeries ==
    UNION {{ts \in [1..n -> {Item(k, r) : k \in KeyStrings, r \in RawRecords}] :
              Distinct(ts)} : n \in 0..MaxEntries}

SampleSeries ==
    {<<>>,
     <<Item("2024-01-02 09:35:00", RowA)>>,
     <<Item("2024-01-02 09:40:00", RowB), Item("2024-01-02 09:35:00", RowA)>>,
     <<Item("2024-01-02 09:40:00", RowBad)>>}

AllPayloads ==
    {<<>>}
    \cup {<<Entry(n, s)>> : n \in {TS5, TS15}, s \in AllSeries}
    \cup {<<Entry(n, <<>>)>> : n \in {ERR, NOTE, META}}
    \cup {<<Entry(n[1], s[1]), Entry(n[2], s[2])>> :
            n \in {m \in TopNames \X TopNames : m[1] # m[2]},
            s \in SampleSeries \X SampleSeries}

SamplePayloads ==
    {<<Entry(ERR, <<>>)>>,
     <<Entry(NOTE, <<>>)>>,
     <<Entry(META, <<>>),
       Entry(TS5, <<Item("2024-01-02 09:35:00", RowA)>>)>>,
     <<Entry(META, <<>>),
       Entry(TS15, <<Item("2024-01-02 09:35:00", RowA)>>)>>,
     <<Entry(TS5, <<Item("2024-01-02 09:40:00", RowBad)>>)>>}

Failure(kind) == [kind |-> kind, data |-> <<>>]
Json(data) == [kind |-> "json", data |-> data]
NoResponse == Failure("none")

AllResponses ==
    {Failure(k) : k \in TransportFailures \cup {"not_json"}}
    \cup {Json(d) : d \in AllPayloads}

SampleResponses ==
    {Failure("status_429"), Failure("not_json")}
    \cup {Json(d) : d \in SamplePayloads}

\* ---------------------------------------------------------------- state
VARIABLES
    API_KEY,    \* the module constant of line 10
    now,        \* wall clock, seconds
    cache,      \* st.cache_data store of get_stock_data, by (symbol, interval)
    netCalls,   \* requests.get calls issued so far, by (symbol, interval)
    misses,     \* calls that found no fresh entry, by (symbol, interval)
    calls,      \* calls of get_stock_data so far
    lastCall,   \* the latest call: its key, what it did and what it returned
    branch      \* the branch of lines 95-166 the latest script run took

vars == <<API_KEY, now, cache, netCalls, misses, calls, lastCall, branch>>

NoEntry == [present |-> FALSE, value |-> None, time |-> 0]

\* ttl=3600 of line 15: an entry answers calls until it is TTL seconds old.
IsFresh(e, t) == e.present /\ t - e.time < TTL

Init ==
    /\ API_KEY \in ApiKeys
    /\ now = 0
    /\ cache = [k \in Keys |-> NoEntry]
    /\ netCalls = [k \in Keys |-> 0]
    /\ misses = [k \in Keys |-> 0]
    /\ calls = 0
    /\ lastCall = [key |-> <<"", "">>, hit |-> FALSE, net |-> 0,
                   value |-> None, msg |-> "none", resp |-> NoResponse]
    /\ branch = "none"

\* Lines 16-65 run on a miss: the guard returns before any request; past
\* it exactly one requests.get is made and its response processed.
Body(resp) ==
    IF KeyGuard(API_KEY)
    THEN {[value |-> None, msg |-> "key_error", net |-> 0, resp |-> NoResponse]}
    ELSE {[value |-> o.value, msg |-> o.msg, net |-> 1, resp |-> resp] :
            o \in Process(resp)}

\* What st.cache_data keeps of a finished call: the return value, None
\* included, stamped with the time of the call.
Store(value, t) == [present |-> TRUE, value |-> value, time |-> t]

\* One call get_stock_data(symbol, interval) through the decorator of line
\* 15; resp is what the provider would answer to a request made now.
GetStockData(symbol, interval, resp) ==
    LET k == <<symbol, interval>>
    IN /\ calls < MaxCalls
       /\ calls' = calls + 1
       /\ IF IsFresh(cache[k], now)
          THEN /\ lastCall' = [key |-> k, hit |-> TRUE, net |-> 0,
                               value |-> cache[k].value, msg |-> "cached",
                               resp |-> NoResponse]
               /\ UNCHANGED <<cache, netCalls, misses>>
          ELSE \E o \in Body(resp) :
               /\ lastCall' = [key |-> k, hit |-> FALSE, net |-> o.net,
                               value |-> o.value, msg |-> o.msg,
                               resp |-> o.resp]
               /\ cache' = [cache EXCEPT ![k] = Store(o.value, now)]
               /\ netCalls' = [netCalls EXCEPT ![k] = @ + o.net]
               /\ misses' = [misses EXCEPT ![k] = @ + 1]

\* A direct call of the function with any interval.
Fetch ==
    \E s \in Symbols, i \in Intervals, r \in SampleResponses :
        /\ GetStockData(s, i, r)
        /\ UNCHANGED <<API_KEY, now, branch>>

\* One run of the script, lines 78-166.
RunDashboard ==
    \E input \in SymbolInputs, r \in SampleResponses :
        LET selected_symbol_input == Upper(input)
        IN IF selected_symbol_input = ""
           THEN /\ branch' = "enter_symbol"
                /\ UNCHANGED <<API_KEY, now, cache, netCalls, misses, calls,
                               lastCall>>
           ELSE /\ GetStockData(selected_symbol_input, DefaultInterval, r)
                /\ branch' = IF lastCall'.value.ok
                                /\ lastCall'.value.rows # <<>>
                             THEN "chart" ELSE "no_data"
                /\ UNCHANGED <<API_KEY, now>>

AdvanceClock ==
    /\ now + Tick <= MaxTime
    /\ now' = now + Tick
    /\ UNCHANGED <<API_KEY, cache, netCalls, misses, calls, lastCall, branch>>

Next == Fetch \/ RunDashboard \/ AdvanceClock

Spec == Init /\ [][Next]_vars

\* The fetch applied once to every response of the bounded input space.
FetchOnce ==
    \E s \in Symbols, i \in Intervals, r \in AllResponses :
        /\ calls = 0
        /\ GetStockData(s, i, r)
        /\ UNCHANGED <<API_KEY, now, branch>>

NextParse == FetchOnce

SpecParse == Init /\ [][NextParse]_vars

\* ------------------------------------------------------------ properties
Called == calls > 0

\* The latest call made a request and the body parsed as JSON.
Parsed == Called /\ ~lastCall.hit /\ lastCall.resp.kind = "json"

HasTimeSeries == Parsed /\ TimeSeriesKey(lastCall.resp.data) # 0

\* The mapping under the first key whose name contains "Time Series".
Located == lastCall.resp.data[TimeSeriesKey(lastCall.resp.data)].series

WellFormed(e) ==
    /\ IsDate(e.key)
    /\ \A f \in DOMAIN e.rec : IsFloat(e.rec[f])

\* The row carries the entry's values under the stripped names and the
\* entry's key as its timestamp.
RowOf(row, e) ==
    /\ row.index = StampOf[e.key]
    /\ \A f \in DOMAIN e.rec : row.cells[Rename(f)] = FloatOf[e.rec[f]]

Rows == lastCall.value.rows

\* C1: for every (symbol, interval), the network calls issued so far are
\* exactly one per freshness window opened: one for each call that found no
\* fresh entry (the first call, and each call after the window elapsed) and
\* none for the calls made inside a window.
C1_OneNetworkCallPerWindow ==
    \A k \in Keys : netCalls[k] = misses[k]

\* C2: a call whose request fails at the transport level signals a network
\* error, returns no series and leaves the cache as it was.
C2_TransportFailureLeavesCache ==
    [][(calls' = calls + 1 /\ lastCall'.resp.kind \in TransportFailures)
         => /\ lastCall'.msg = "network_error"
            /\ ~lastCall'.value.ok
            /\ cache' = cache]_vars

\* C3: a parsed payload with no time-series key yields no series and is
\* classified as provider error when it has "Error Message", rate limit
\* when it has "Note" and no "Error Message", unexpected response otherwise.
C3_Classification ==
    (Parsed /\ ~HasTimeSeries) =>
        /\ ~lastCall.value.ok
        /\ InData(lastCall.resp.data, ERR) => lastCall.msg = "api_error"
        /\ (InData(lastCall.resp.data, NOTE)
              /\ ~InData(lastCall.resp.data, ERR)) => lastCall.msg = "api_note"
        /\ (~InData(lastCall.resp.data, NOTE)
              /\ ~InData(lastCall.resp.data, ERR))
             => lastCall.msg = "could_not_fetch"

C3_Witness ==
    /\ Parsed /\ ~HasTimeSeries
    /\ InData(lastCall.resp.data, NOTE)
    /\ InData(lastCall.resp.data, ERR)
    /\ lastCall.msg = "api_error"

\* C4: for every requested interval, a parsed payload with a key whose name
\* contains "Time Series" and whose entries are all well formed is a
\* success: the call returns the series built from that key's value.
C4_StructuralLookup ==
    (HasTimeSeries /\ \A i \in 1..Len(Located) : WellFormed(Located[i]))
        => /\ lastCall.value.ok
           /\ Len(Rows) = Len(Located)

\* C5: a returned series is strictly ascending by timestamp.
C5_StrictlyAscending ==
    (Called /\ lastCall.value.ok) =>
        \A i \in 1..Len(Rows) : \A j \in 1..Len(Rows) :
            i < j => Rows[i].index < Rows[j].index

\* C6: when two entries with distinct key strings parse to the same
\* timestamp, the returned series has exactly one row for that timestamp
\* and it carries the values of the later entry.
C6_LastSeenWins ==
    (HasTimeSeries /\ lastCall.value.ok) =>
        \A i \in 1..Len(Located) : \A j \in 1..Len(Located) :
            (i < j /\ StampOf[Located[i].key] = StampOf[Located[j].key]) =>
                /\ Cardinality({n \in 1..Len(Rows) :
                       Rows[n].index = StampOf[Located[j].key]}) = 1
                /\ \A n \in 1..Len(Rows) :
                       Rows[n].index = StampOf[Located[j].key]
                           => RowOf(Rows[n], Located[j])

\* C7: a call that is not answered from a fresh cache entry issues exactly
\* one HTTP GET, whatever its outcome.
C7_ExactlyOneGet ==
    (Called /\ ~lastCall.hit) => lastCall.net = 1

\* C8: a parsed payload with a time-series key whose N entries are well
\* formed and have N distinct timestamps yields exactly N rows, one per
\* entry, each with the entry's values and parsed timestamp.
C8_RoundTrip ==
    (/\ HasTimeSeries
     /\ \A i \in 1..Len(Located) : WellFormed(Located[i])
     /\ \A i \in 1..Len(Located) : \A j \in 1..Len(Located) :
            i # j => StampOf[Located[i].key] # StampOf[Located[j].key])
        => /\ lastCall.value.ok
           /\ Len(Rows) = Len(Located)
           /\ \A i \in 1..Len(Located) :
                 \E n \in 1..Len(Rows) : RowOf(Rows[n], Located[i])

\* C9: when some entry of the located time-series mapping fails numeric or
\* date coercion the call returns no series at all, and a message is
\* reported.
C9_TotalFailure ==
    (HasTimeSeries /\ \E i \in 1..Len(Located) : ~WellFormed(Located[i]))
        => /\ ~lastCall.value.ok
           /\ lastCall.value.rows = <<>>
           /\ lastCall.msg # "none"

C9_Witness ==
    /\ HasTimeSeries
    /\ InData(lastCall.resp.data, TS5)
    /\ Len(Located) = 2
    /\ WellFormed(Located[1])
    /\ ~WellFormed(Located[2])
    /\ lastCall.msg = "unexpected_error"
    /\ ~lastCall.value.ok

\* C10: with the key as shipped no call ever issues a request, every call
\* returns None from the credential guard (or from the cached None), and a
\* script run never takes the chart branch.
C10_ShippedKeyNeverFetches ==
    API_KEY = ShippedKey =>
        /\ \A k \in Keys : netCalls[k] = 0
        /\ Called => /\ ~lastCall.value.ok
                     /\ lastCall.net = 0
                     /\ lastCall.msg \in {"key_error", "cached"}
        /\ branch # "chart"

C10_Witness ==
    /\ API_KEY = ShippedKey
    /\ calls >= 2
    /\ lastCall.hit
    /\ branch = "no_data"

====
